---- MODULE Spec2Model ----
(***************************************************************************)
(* Outage Response Simulator of the Generator Decision page               *)
(* (src/pages/Generator_Decision.py) and the generator-scenario store it  *)
(* uses (src/db.py).                                                      *)
(*                                                                         *)
(* Numbers.  A Python float is modelled as a binary floating-point number *)
(* of MantissaBits significant bits whose smallest step is 1/Unit,        *)
(* Unit = 2^FracBits, written as an integer count of 1/Unit.  Every sum,  *)
(* difference, product and quotient is rounded to the nearest             *)
(* representable value, ties to even, as IEEE 754 does: a result below    *)
(* 2^MantissaBits steps is kept to the step, a larger one keeps its       *)
(* MantissaBits leading bits.  So x / n * n need not be x, and a sum of   *)
(* large terms need not be the exact sum, as in the program.              *)
(*                                                                         *)
(* A value that may be None is a sequence: <<>> is None, <<v>> is v.      *)
(*                                                                         *)
(* A value of the two day fields of ScenarioInputs (annotated int, never  *)
(* checked) is tagged with its Python type: [t |-> "int", v |-> n],       *)
(* [t |-> "float", v |-> fixed-point], [t |-> "str", v |-> 0] (a string   *)
(* that is not a number).                                                 *)
(***************************************************************************)
EXTENDS Integers, Sequences, FiniteSets, TLC

VARIABLES
    scenario,   \* the ScenarioInputs of the run
    results,    \* None, or the value compute_stop_vs_rent returned (or Raised)
    figure,     \* None, or the figure _plot_sensitivity_rental_cost returned
    rerun,      \* None, or a re-run of the simulation at another rental price
    pc,         \* the position of the run, or of the page's script
    widgets,    \* the values of the page's sidebar widgets
    loaded_scenario,  \* st.session_state.loaded_scenario: None or stored inputs
    db_rows,    \* the rows of table generator_scenarios, oldest first
    next_id,    \* the id AUTOINCREMENT gives the next row
    notice,     \* the message the last script run left on the page
    events      \* the number of user interactions so far

vars == <<scenario, results, figure, rerun, pc, widgets, loaded_scenario,
          db_rows, next_id, notice, events>>
pagevars == <<widgets, loaded_scenario, db_rows, next_id, notice, events>>

\* ------------------------------------------------------------------ bounds

FracBits == 2
MantissaBits == 24
MaxOutage == 3
MaxMinRental == 4
MaxEvents == 3

Unit == 2 ^ FracBits

\* ------------------------------------------------------------- arithmetic

Max(a, b) == IF a >= b THEN a ELSE b

\* a / b for b > 0, rounded to the nearest integer, ties to even.
RoundDiv(a, b) ==
    LET q == a \div b
        r == a % b
    IN  IF 2 * r < b THEN q
        ELSE IF 2 * r > b THEN q + 1
        ELSE IF q % 2 = 0 THEN q ELSE q + 1

\* The first power of two above every value kept to the step.
MantissaLimit == 2 ^ MantissaBits

\* The step of the floats of magnitude a >= MantissaLimit.
RECURSIVE StepAt(_, _)
StepAt(a, step) ==
    IF a < MantissaLimit * step THEN step ELSE StepAt(a, 2 * step)

\* The float nearest to the exact value x.
Fl(x) ==
    IF -MantissaLimit < x /\ x < MantissaLimit THEN x
    ELSE LET a == IF x >= 0 THEN x ELSE -x
             step == StepAt(a, 2)
             r == RoundDiv(a, step) * step
         IN  IF x >= 0 THEN r ELSE -r

\* x + y and x - y of two floats.
FAdd(x, y) == Fl(x + y)
FSub(x, y) == Fl(x - y)

\* float(n) of an integer n.
ToFloat(n) == Fl(n * Unit)

\* x * y of two floats.
FMul(x, y) == Fl(RoundDiv(x * y, Unit))

\* x * n of a float by an integer.
FTimes(x, n) == Fl(x * n)

\* x / n of a float by an integer n > 0.
FDiv(x, n) == Fl(RoundDiv(x, n))

None == <<>>
Some(v) == <<v>>

PyInt(n) == [t |-> "int", v |-> n]
PyFloat(x) == [t |-> "float", v |-> x]
PyStr == [t |-> "str", v |-> 0]

\* ------------------------------------------------------ the pure functions

\* Mutant: the value is passed through unclamped.
_clamp_non_negative_Unclamped(value) == value

_clamp_non_negative(value) == Max(0, value)

\* int(value): an int as it is, a float truncated toward zero; a string that
\* is not a number raises ValueError, which _safe_int turns into 0.
_safe_int(value) ==
    CASE value.t = "int" -> value.v
      [] value.t = "float" ->
            IF value.v >= 0 THEN value.v \div Unit ELSE -((-value.v) \div Unit)
      [] OTHER -> 0

\* value <= 0 on the raw field: TypeError for a string.
LeqZeroRaises(value) == value.t = "str"
LeqZero(value) == value.v <= 0

\* Mutant: the liters per day are used whatever the fuel method is.
_compute_fuel_cost_per_day_AlwaysPerDay(inputs) ==
    IF LeqZeroRaises(inputs.outage_days)
    THEN [raised |-> TRUE, value |-> 0]
    ELSE IF LeqZero(inputs.outage_days)
    THEN [raised |-> FALSE, value |-> 0]
    ELSE [raised |-> FALSE,
          value |-> FMul(_clamp_non_negative(inputs.liters_per_day),
                         _clamp_non_negative(inputs.diesel_price_per_liter))]

\* Returns [raised, value]: the comparison of the raw outage_days raises
\* TypeError when it is not a number.
_compute_fuel_cost_per_day(inputs) ==
    LET diesel_price == _clamp_non_negative(inputs.diesel_price_per_liter)
    IN  IF LeqZeroRaises(inputs.outage_days)
        THEN [raised |-> TRUE, value |-> 0]
        ELSE IF LeqZero(inputs.outage_days)
        THEN [raised |-> FALSE, value |-> 0]
        ELSE IF inputs.fuel_method = "per_unit"
        THEN [raised |-> FALSE,
              value |-> FMul(FMul(_clamp_non_negative(inputs.liters_per_unit),
                                  _clamp_non_negative(inputs.production_per_day)),
                             diesel_price)]
        ELSE [raised |-> FALSE,
              value |-> FMul(_clamp_non_negative(inputs.liters_per_day), diesel_price)]

\* Mutant: the minimum rental is billed even when there is no outage.
billed_days_of_NoZeroCase(outage_days, min_rental_days) ==
    IF outage_days >= min_rental_days THEN outage_days ELSE min_rental_days

\* Mutant: the minimum rental term is ignored.
billed_days_of_IgnoresMinimum(outage_days, min_rental_days) == outage_days

\* Mutant: the minimum rental term alone is billed.
billed_days_of_MinimumOnly(outage_days, min_rental_days) ==
    IF outage_days = 0 THEN 0 ELSE min_rental_days

billed_days_of(outage_days, min_rental_days) ==
    IF outage_days = 0 THEN 0 ELSE Max(outage_days, min_rental_days)

\* Mutant: the horizon stops with the outage.
horizon_days_of_OutageOnly(outage_days, billed_days) == outage_days

horizon_days_of(outage_days, billed_days) == Max(outage_days, billed_days)

\* Mutant: the whole mobilization is charged each billed day.
mobilization_per_billed_day_of_Unamortized(mobilization, billed_days) ==
    IF billed_days > 0 THEN mobilization ELSE 0

mobilization_per_billed_day_of(mobilization, billed_days) ==
    IF billed_days > 0 THEN FDiv(mobilization, billed_days) ELSE 0

\* Mutant: the penalty of stopping is not charged.
stop_profit_of_PenaltyDropped(day, outage_days, fixed_costs, stop_penalty) ==
    IF day <= outage_days THEN -fixed_costs ELSE 0

\* Mutant: the stop strategy pays its costs on every day of the horizon.
stop_profit_of_WholeHorizon(day, outage_days, fixed_costs, stop_penalty) ==
    -FAdd(fixed_costs, stop_penalty)

stop_profit_of(day, outage_days, fixed_costs, stop_penalty) ==
    IF day <= outage_days THEN -FAdd(fixed_costs, stop_penalty) ELSE 0

\* Mutant: the rental is added to the day's profit instead of subtracted.
rent_profit_of_AddsRental(day, outage_days, billed_days, revenue_per_day, non_power_variable_per_day, fuel_cost_per_day, fixed_costs, rental_daily, mobilization_per_billed_day) ==
    LET in_outage == day <= outage_days
        in_billing == day <= billed_days
    IN  IF in_outage
        THEN FSub(FAdd(FSub(FSub(FSub(revenue_per_day,
                                       non_power_variable_per_day),
                                  fuel_cost_per_day),
                             fixed_costs),
                       IF in_billing THEN rental_daily ELSE 0),
                  IF in_billing THEN mobilization_per_billed_day ELSE 0)
        ELSE IF in_billing
        THEN FSub(rental_daily, mobilization_per_billed_day)
        ELSE 0

\* Mutant: nothing is charged after the outage.
rent_profit_of_NoTail(day, outage_days, billed_days, revenue_per_day, non_power_variable_per_day, fuel_cost_per_day, fixed_costs, rental_daily, mobilization_per_billed_day) ==
    LET in_outage == day <= outage_days
        in_billing == day <= billed_days
    IN  IF in_outage
        THEN FSub(FSub(FSub(FSub(FSub(revenue_per_day,
                                       non_power_variable_per_day),
                                  fuel_cost_per_day),
                             fixed_costs),
                       IF in_billing THEN rental_daily ELSE 0),
                  IF in_billing THEN mobilization_per_billed_day ELSE 0)
        ELSE 0

\* Mutant: the fixed costs are not charged while renting.
rent_profit_of_NoFixedCosts(day, outage_days, billed_days, revenue_per_day, non_power_variable_per_day, fuel_cost_per_day, fixed_costs, rental_daily, mobilization_per_billed_day) ==
    LET in_outage == day <= outage_days
        in_billing == day <= billed_days
    IN  IF in_outage
        THEN FSub(FSub(FSub(FSub(revenue_per_day,
                                  non_power_variable_per_day),
                             fuel_cost_per_day),
                       IF in_billing THEN rental_daily ELSE 0),
                  IF in_billing THEN mobilization_per_billed_day ELSE 0)
        ELSE IF in_billing
        THEN -FAdd(rental_daily, mobilization_per_billed_day)
        ELSE 0

\* Mutant: the whole mobilization is charged on the first day.
rent_profit_of_MobilizationUpFront(day, outage_days, billed_days, revenue_per_day, non_power_variable_per_day, fuel_cost_per_day, fixed_costs, rental_daily, mobilization_per_billed_day) ==
    LET in_outage == day <= outage_days
        in_billing == day <= billed_days
        mobilization ==
            IF day = 1 THEN FTimes(mobilization_per_billed_day, billed_days)
            ELSE 0
    IN  IF in_outage
        THEN FSub(FSub(FSub(FSub(FSub(revenue_per_day,
                                       non_power_variable_per_day),
                                  fuel_cost_per_day),
                             fixed_costs),
                       IF in_billing THEN rental_daily ELSE 0),
                  IF in_billing THEN mobilization ELSE 0)
        ELSE IF in_billing
        THEN -FAdd(rental_daily, mobilization)
        ELSE 0

\* Mutant: the fuel of the generator is not charged.
rent_profit_of_FuelFree(day, outage_days, billed_days, revenue_per_day, non_power_variable_per_day, fuel_cost_per_day, fixed_costs, rental_daily, mobilization_per_billed_day) ==
    LET in_outage == day <= outage_days
        in_billing == day <= billed_days
    IN  IF in_outage
        THEN FSub(FSub(FSub(FSub(revenue_per_day,
                                  non_power_variable_per_day),
                             fixed_costs),
                       IF in_billing THEN rental_daily ELSE 0),
                  IF in_billing THEN mobilization_per_billed_day ELSE 0)
        ELSE IF in_billing
        THEN -FAdd(rental_daily, mobilization_per_billed_day)
        ELSE 0

rent_profit_of(day, outage_days, billed_days, revenue_per_day, non_power_variable_per_day, fuel_cost_per_day, fixed_costs, rental_daily, mobilization_per_billed_day) ==
    LET in_outage == day <= outage_days
        in_billing == day <= billed_days
    IN  IF in_outage
        THEN FSub(FSub(FSub(FSub(FSub(revenue_per_day,
                                       non_power_variable_per_day),
                                  fuel_cost_per_day),
                             fixed_costs),
                       IF in_billing THEN rental_daily ELSE 0),
                  IF in_billing THEN mobilization_per_billed_day ELSE 0)
        ELSE IF in_billing
        THEN -FAdd(rental_daily, mobilization_per_billed_day)
        ELSE 0

RECURSIVE CumulativeFrom(_, _, _)
CumulativeFrom(values, i, total) ==
    IF i > Len(values) THEN <<>>
    ELSE <<FAdd(total, values[i])>>
             \o CumulativeFrom(values, i + 1, FAdd(total, values[i]))

\* Mutant: the sums do not carry from one day to the next.
_cumulative_NoCarry(values) == values

\* Left-to-right running sums.
_cumulative(values) == CumulativeFrom(values, 1, 0)

\* Mutant: the total is the sum of the first day.
Last_Head(s, dflt) == IF Len(s) > 0 THEN s[1] ELSE dflt

Last(s, dflt) == IF Len(s) > 0 THEN s[Len(s)] ELSE dflt

\* The first index whose value is >= 0, or None.
RECURSIVE FirstNonNegativeFrom(_, _)
FirstNonNegativeFrom(s, i) ==
    IF i > Len(s) THEN None
    ELSE IF s[i] >= 0 THEN Some(i)
    ELSE FirstNonNegativeFrom(s, i + 1)

\* Mutant: the scan does not stop at the first crossing and keeps the last.
RECURSIVE LastNonNegativeFrom(_, _)
LastNonNegativeFrom(s, i) ==
    IF i < 1 THEN None
    ELSE IF s[i] >= 0 THEN Some(i)
    ELSE LastNonNegativeFrom(s, i - 1)

break_even_day_of_LastCrossing(diff_cum) ==
    LastNonNegativeFrom(diff_cum, Len(diff_cum))

\* Mutant: a difference of exactly 0 does not count as a crossing.
RECURSIVE FirstPositiveFrom(_, _)
FirstPositiveFrom(s, i) ==
    IF i > Len(s) THEN None
    ELSE IF s[i] > 0 THEN Some(i)
    ELSE FirstPositiveFrom(s, i + 1)

break_even_day_of_StrictCrossing(diff_cum) == FirstPositiveFrom(diff_cum, 1)

break_even_day_of(diff_cum) == FirstNonNegativeFrom(diff_cum, 1)

\* The running minimum from the right: out[i] = min(diff_cum[i..]).
RECURSIVE SuffixMinFrom(_, _)
SuffixMinFrom(s, i) ==
    IF i > Len(s) THEN <<>>
    ELSE LET rest == SuffixMinFrom(s, i + 1)
         IN  IF Len(rest) = 0 THEN <<s[i]>>
             ELSE <<IF s[i] <= rest[1] THEN s[i] ELSE rest[1]>> \o rest

\* Mutant: the day is taken from the differences, not from their running
\* minimum from the right.
stable_break_even_day_of_NoSuffix(diff_cum) ==
    IF Len(diff_cum) > 0 THEN FirstNonNegativeFrom(diff_cum, 1) ELSE None

\* Mutant: a running minimum of exactly 0 does not count.
stable_break_even_day_of_StrictlyAhead(diff_cum) ==
    IF Len(diff_cum) > 0
    THEN FirstPositiveFrom(SuffixMinFrom(diff_cum, 1), 1)
    ELSE None

stable_break_even_day_of(diff_cum) ==
    IF Len(diff_cum) > 0
    THEN FirstNonNegativeFrom(SuffixMinFrom(diff_cum, 1), 1)
    ELSE None

\* Mutant: the rental already charged is not added back.
max_rental_cost_per_day_of_KeepsRental(billed_days, total_rent, total_stop, rental_daily) ==
    IF billed_days > 0
    THEN Some(FDiv(FSub(total_rent, total_stop), billed_days))
    ELSE None

\* Mutant: the rental added back is left out of the division.
max_rental_cost_per_day_of_Precedence(billed_days, total_rent, total_stop, rental_daily) ==
    IF billed_days > 0
    THEN Some(FAdd(FDiv(FSub(total_rent, total_stop), billed_days),
                   FTimes(rental_daily, billed_days)))
    ELSE None

\* Mutant: a negative price is returned as 0.
max_rental_cost_per_day_of_Clamped(billed_days, total_rent, total_stop, rental_daily) ==
    IF billed_days > 0
    THEN Some(Max(0, FDiv(FSub(FAdd(total_rent,
                                    FTimes(rental_daily, billed_days)),
                               total_stop),
                          billed_days)))
    ELSE None

max_rental_cost_per_day_of(billed_days, total_rent, total_stop, rental_daily) ==
    IF billed_days > 0
    THEN LET total_rent_without_daily_rental ==
                 FAdd(total_rent, FTimes(rental_daily, billed_days))
         IN  Some(FDiv(FSub(total_rent_without_daily_rental, total_stop),
                       billed_days))
    ELSE None

Raised == [exception |-> "TypeError"]
HasRaised(r) == "exception" \in DOMAIN r

compute_stop_vs_rent(inputs) ==
    LET outage_days == Max(0, _safe_int(inputs.outage_days))
        min_rental_days == Max(0, _safe_int(inputs.minimum_rental_days))
        billed_days == billed_days_of(outage_days, min_rental_days)
        horizon_days == horizon_days_of(outage_days, billed_days)
        fixed_costs == _clamp_non_negative(inputs.fixed_costs_per_day)
        stop_penalty == _clamp_non_negative(inputs.stop_penalty_per_day)
        production == _clamp_non_negative(inputs.production_per_day)
        price == _clamp_non_negative(inputs.price_per_unit)
        non_power_var == _clamp_non_negative(inputs.non_power_variable_cost_per_unit)
        rental_daily == _clamp_non_negative(inputs.rental_cost_per_day)
        mobilization == _clamp_non_negative(inputs.mobilization_cost)
        revenue_per_day == FMul(production, price)
        non_power_variable_per_day == FMul(production, non_power_var)
        fuel == _compute_fuel_cost_per_day(inputs)
        fuel_cost_per_day == fuel.value
        mobilization_per_billed_day ==
            mobilization_per_billed_day_of(mobilization, billed_days)
        stop_profit_daily ==
            [day \in 1..horizon_days |->
                stop_profit_of(day, outage_days, fixed_costs, stop_penalty)]
        rent_profit_daily ==
            [day \in 1..horizon_days |->
                rent_profit_of(day, outage_days, billed_days, revenue_per_day,
                               non_power_variable_per_day, fuel_cost_per_day,
                               fixed_costs, rental_daily,
                               mobilization_per_billed_day)]
        stop_cum == _cumulative(stop_profit_daily)
        rent_cum == _cumulative(rent_profit_daily)
        diff_cum == [i \in 1..horizon_days |-> FSub(rent_cum[i], stop_cum[i])]
        total_stop == Last(stop_cum, 0)
        total_rent == Last(rent_cum, 0)
    IN  IF fuel.raised THEN Raised
        ELSE
        [outage_days |-> outage_days,
         billed_days |-> billed_days,
         horizon_days |-> horizon_days,
         revenue_per_day |-> revenue_per_day,
         non_power_variable_per_day |-> non_power_variable_per_day,
         fuel_cost_per_day |-> fuel_cost_per_day,
         mobilization_per_billed_day |-> mobilization_per_billed_day,
         total_stop |-> total_stop,
         total_rent |-> total_rent,
         incremental_total |-> FSub(total_rent, total_stop),
         break_even_day |-> break_even_day_of(diff_cum),
         stable_break_even_day |-> stable_break_even_day_of(diff_cum),
         max_rental_cost_per_day |->
             max_rental_cost_per_day_of(billed_days, total_rent, total_stop,
                                        rental_daily),
         daily_table |->
             [Day |-> [i \in 1..horizon_days |-> i],
              Profit_Stop |-> stop_profit_daily,
              Profit_Rent |-> rent_profit_daily,
              Cumulative_Stop |-> stop_cum,
              Cumulative_Rent |-> rent_cum,
              Cumulative_Diff |-> diff_cum]]

\* ------------------------------------------------------- sensitivity sweep

steps == 60
MinSpan == 100

\* Mutant: the copy takes the price as its stop penalty too.
WithRentalCost_AlsoPenalty(inputs, v) ==
    [inputs EXCEPT !.rental_cost_per_day = v, !.stop_penalty_per_day = v]

\* ScenarioInputs(**{**inputs.__dict__, "rental_cost_per_day": float(v)})
WithRentalCost(inputs, v) == [inputs EXCEPT !.rental_cost_per_day = v]

\* 1.5 * x
OneAndAHalf(x) == Fl(RoundDiv(3 * x, 2))

\* Mutant: the bound has no minimum span.
sweep_upper_NoFloor(inputs, base_results) ==
    LET current == _clamp_non_negative(inputs.rental_cost_per_day)
        max_rental == base_results.max_rental_cost_per_day
        upper0 == Max(FTimes(current, 2), ToFloat(1))
    IN  IF max_rental # None
        THEN Max(upper0, OneAndAHalf(Max(0, max_rental[1])))
        ELSE upper0

sweep_upper(inputs, base_results) ==
    LET current == _clamp_non_negative(inputs.rental_cost_per_day)
        max_rental == base_results.max_rental_cost_per_day
        upper0 == Max(FTimes(current, 2), ToFloat(1))
        upper1 == IF max_rental # None
                  THEN Max(upper0, OneAndAHalf(Max(0, max_rental[1])))
                  ELSE upper0
    IN  IF upper1 < ToFloat(MinSpan) THEN ToFloat(MinSpan) ELSE upper1

\* Mutant: the sweep is run whatever the billed days are.
_plot_sensitivity_rental_cost_NoGuard(inputs, base_results) ==
    LET upper == sweep_upper(inputs, base_results)
        rental_values ==
            [i \in 1..steps |-> FDiv(FTimes(upper, i - 1), steps - 1)]
        tmp == [i \in 1..steps |->
                   compute_stop_vs_rent(WithRentalCost(inputs, rental_values[i]))]
    IN  [title |-> "Sensitivity: incremental benefit vs rental cost",
         traces |-> <<[x |-> rental_values,
                       y |-> [i \in 1..steps |-> tmp[i].incremental_total]]>>,
         runs |-> Len(tmp)]

\* The figure returned: its title and its traces.  runs is not part of the
\* figure: it is the number of times the call invoked compute_stop_vs_rent.
_plot_sensitivity_rental_cost(inputs, base_results) ==
    IF base_results.billed_days <= 0
    THEN [title |-> "Sensitivity (rental cost): not applicable",
          traces |-> <<>>,
          runs |-> 0]
    ELSE LET upper == sweep_upper(inputs, base_results)
             rental_values ==
                 [i \in 1..steps |-> FDiv(FTimes(upper, i - 1), steps - 1)]
             tmp == [i \in 1..steps |->
                        compute_stop_vs_rent(
                            WithRentalCost(inputs, rental_values[i]))]
         IN  [title |-> "Sensitivity: incremental benefit vs rental cost",
              traces |-> <<[x |-> rental_values,
                            y |-> [i \in 1..steps |-> tmp[i].incremental_total]]>>,
              runs |-> Len(tmp)]

\* Mutant: the sweep writes each price into the caller's configuration.
BaselineAfterSweep_Aliased(inputs, base_results) ==
    IF base_results.billed_days <= 0 THEN inputs
    ELSE WithRentalCost(inputs, sweep_upper(inputs, base_results))

\* The configuration the caller holds once the sweep has returned: each
\* tmp_inputs is a new ScenarioInputs built from a copy of inputs.__dict__,
\* and ScenarioInputs is frozen, so it is the one the caller passed.
BaselineAfterSweep(inputs, base_results) == inputs

\* ------------------------------------------------------------ input space

ScenarioInputs(od, prod, price, npv, fixed, pen, fm, dp, lpd, lpu, rc, mob, mr) ==
    [outage_days |-> od,
     production_per_day |-> prod,
     price_per_unit |-> price,
     non_power_variable_cost_per_unit |-> npv,
     fixed_costs_per_day |-> fixed,
     stop_penalty_per_day |-> pen,
     fuel_method |-> fm,
     diesel_price_per_liter |-> dp,
     liters_per_day |-> lpd,
     liters_per_unit |-> lpu,
     rental_cost_per_day |-> rc,
     mobilization_cost |-> mob,
     minimum_rental_days |-> mr]

\* One positive value of each field, in whole currency units or days.
High ==
    [outage_days |-> 2, production_per_day |-> 2, price_per_unit |-> 3,
     non_power_variable_cost_per_unit |-> 1, fixed_costs_per_day |-> 1,
     stop_penalty_per_day |-> 1, diesel_price_per_liter |-> 1,
     liters_per_day |-> 2, liters_per_unit |-> 1, rental_cost_per_day |-> 3,
     mobilization_cost |-> 2, minimum_rental_days |-> 3]

ZeroOrHigh(f) == {ToFloat(0), ToFloat(High[f])}
NegativeOrHigh(f) == {ToFloat(-1), ToFloat(High[f])}
NegativeOrHighDays(f) == {PyInt(-1), PyInt(High[f])}

\* Well-formed scenarios: every day count of the bounds, every money field
\* zero or positive, both fuel methods.
EconomicInputs ==
    {ScenarioInputs(PyInt(od), prod, price, npv, fixed, pen, fm, dp, lpd, lpu,
                    rc, mob, PyInt(mr)) :
        od \in 0..MaxOutage, mr \in 0..MaxMinRental,
        prod \in ZeroOrHigh("production_per_day"),
        price \in ZeroOrHigh("price_per_unit"),
        npv \in ZeroOrHigh("non_power_variable_cost_per_unit"),
        fixed \in ZeroOrHigh("fixed_costs_per_day"),
        pen \in ZeroOrHigh("stop_penalty_per_day"),
        fm \in {"per_day", "per_unit"},
        dp \in ZeroOrHigh("diesel_price_per_liter"),
        lpd \in ZeroOrHigh("liters_per_day"),
        lpu \in ZeroOrHigh("liters_per_unit"),
        rc \in ZeroOrHigh("rental_cost_per_day"),
        mob \in ZeroOrHigh("mobilization_cost")}

\* Scenarios with any set of numeric fields negative.
NegativeInputs ==
    {ScenarioInputs(od, prod, price, npv, fixed, pen, fm, dp, lpd, lpu,
                    rc, mob, mr) :
        od \in NegativeOrHighDays("outage_days"),
        mr \in NegativeOrHighDays("minimum_rental_days"),
        prod \in NegativeOrHigh("production_per_day"),
        price \in NegativeOrHigh("price_per_unit"),
        npv \in NegativeOrHigh("non_power_variable_cost_per_unit"),
        fixed \in NegativeOrHigh("fixed_costs_per_day"),
        pen \in NegativeOrHigh("stop_penalty_per_day"),
        fm \in {"per_day", "per_unit"},
        dp \in NegativeOrHigh("diesel_price_per_liter"),
        lpd \in NegativeOrHigh("liters_per_day"),
        lpu \in NegativeOrHigh("liters_per_unit"),
        rc \in NegativeOrHigh("rental_cost_per_day"),
        mob \in NegativeOrHigh("mobilization_cost")}

\* Day fields that are not integers or not numbers, and a fuel method the
\* program does not know.
MalformedDays(max) ==
    {PyInt(n) : n \in -1..max}
        \cup {PyFloat(Unit \div 2), PyFloat(2 * Unit + Unit \div 2), PyStr}

MalformedInputs ==
    {ScenarioInputs(od, ToFloat(High.production_per_day),
                    ToFloat(High.price_per_unit),
                    ToFloat(High.non_power_variable_cost_per_unit),
                    ToFloat(High.fixed_costs_per_day),
                    ToFloat(High.stop_penalty_per_day), fm,
                    ToFloat(High.diesel_price_per_liter),
                    ToFloat(High.liters_per_day), ToFloat(High.liters_per_unit),
                    ToFloat(High.rental_cost_per_day),
                    ToFloat(High.mobilization_cost), mr) :
        od \in MalformedDays(MaxOutage), mr \in MalformedDays(MaxMinRental),
        fm \in {"per_day", "per_unit", "liters"}}

\* The three scenarios the specification works out: A, nothing to sell while
\* renting; B, revenue far above the rental; C, a minimum rental longer than
\* the outage.
ScenarioA ==
    {ScenarioInputs(PyInt(5), ToFloat(prod), ToFloat(50 - prod \div 2),
                    ToFloat(0), ToFloat(1000), ToFloat(0), fm, ToFloat(0),
                    ToFloat(0), ToFloat(0), ToFloat(500), ToFloat(0), PyInt(0)) :
        prod \in {0, 100}, fm \in {"per_day", "per_unit"}}

ScenarioB ==
    {ScenarioInputs(PyInt(10), ToFloat(100), ToFloat(50), ToFloat(0),
                    ToFloat(0), ToFloat(0), fm, ToFloat(0), ToFloat(0),
                    ToFloat(0), ToFloat(10), ToFloat(0), PyInt(0)) :
        fm \in {"per_day", "per_unit"}}

ScenarioC ==
    {ScenarioInputs(PyInt(3), ToFloat(prod), ToFloat(50), ToFloat(0),
                    ToFloat(fixed), ToFloat(0), "per_day", ToFloat(0),
                    ToFloat(0), ToFloat(0), ToFloat(rc), ToFloat(mob),
                    PyInt(10)) :
        prod \in {0, 100}, fixed \in {0, 1000}, rc \in {0, 500},
        mob \in {0, 1001}}

WorkedScenarios == ScenarioA \cup ScenarioB \cup ScenarioC

InputSpace ==
    EconomicInputs \cup NegativeInputs \cup MalformedInputs \cup WorkedScenarios

\* Amounts whose sums need more bits than a float keeps, and small ones: a
\* few steps, and a few steps below the first power of two above which a
\* float no longer holds every step.
FineAmounts ==
    {0, 1, 2, MantissaLimit - 3, MantissaLimit - 2, MantissaLimit - 1}

\* Scenarios of one unit a day sold at a fine price, with fine fixed costs,
\* penalty and rental, no fuel and no other variable cost.
FloatInputs ==
    {ScenarioInputs(PyInt(od), ToFloat(1), price, ToFloat(0), fixed, pen,
                    "per_day", ToFloat(0), ToFloat(0), ToFloat(0), rc,
                    ToFloat(mob), PyInt(mr)) :
        od \in 0..MaxOutage, mr \in {0, MaxMinRental},
        price \in FineAmounts, fixed \in FineAmounts, pen \in FineAmounts,
        rc \in FineAmounts, mob \in {0, 2}}

\* The scenarios the sensitivity sweep is run on: every day count of the
\* bounds, prices and revenues on both sides of the minimum chart span.
SweepInputs ==
    {ScenarioInputs(PyInt(od), ToFloat(prod), ToFloat(price),
                    ToFloat(High.non_power_variable_cost_per_unit),
                    ToFloat(High.fixed_costs_per_day), ToFloat(pen), fm,
                    ToFloat(High.diesel_price_per_liter),
                    ToFloat(High.liters_per_day), ToFloat(High.liters_per_unit),
                    ToFloat(rc), ToFloat(mob), PyInt(mr)) :
        od \in 0..MaxOutage, mr \in 0..MaxMinRental,
        prod \in {0, 2, 10}, price \in {3, 10}, pen \in {0, 1},
        fm \in {"per_day", "per_unit"}, rc \in {-1, 0, 3, 60}, mob \in {0, 2}}

\* The prices a run is repeated at: the indifference price and prices below it.
PriceOffsets == {0, 1, Unit, 2 * Unit}

\* ------------------------------------------------- generator scenario store

\* json.dumps and json.loads: the stored text stands for the value; Python
\* reads back the ints, finite floats, strings and None it wrote.
json_dumps(value) == [json |-> value]
json_loads(text) == text.json

\* Mutant: the whole result is handed to the store.
WithoutDailyTable_Whole(res) == res

WithoutDailyTable(res) == [k \in DOMAIN res \ {"daily_table"} |-> res[k]]

\* DataFrame.to_dict(orient="records")
ToRecords(table) ==
    [i \in 1..Len(table.Day) |-> [col \in DOMAIN table |-> table[col][i]]]

save_generator_scenario(rows, id, name, inputs, res) ==
    LET results_to_save ==
            IF "daily_table" \in DOMAIN res
            THEN [k \in DOMAIN res |->
                    IF k = "daily_table" THEN ToRecords(res[k]) ELSE res[k]]
            ELSE res
    IN  Append(rows, [id |-> id,
                      name |-> name,
                      inputs_json |-> json_dumps(inputs),
                      results_json |-> json_dumps(results_to_save)])

RowDict(row) ==
    [id |-> row.id,
     name |-> row.name,
     inputs |-> json_loads(row.inputs_json),
     results |-> json_loads(row.results_json)]

get_generator_scenarios(rows) == [i \in 1..Len(rows) |-> RowDict(rows[i])]

get_generator_scenario(rows, scenario_id) ==
    IF \E i \in 1..Len(rows) : rows[i].id = scenario_id
    THEN Some(RowDict(rows[CHOOSE i \in 1..Len(rows) : rows[i].id = scenario_id]))
    ELSE None

delete_generator_scenario(rows, scenario_id) ==
    SelectSeq(rows, LAMBDA row : row.id # scenario_id)

\* ------------------------------------------------------------- the page

\* The nearest float to the decimal n / 10^k.
Decimal(n, scale) == RoundDiv(n * Unit, scale)

DefaultLiters(ui) ==
    IF ui = "Liters per day" THEN ToFloat(700) ELSE Decimal(9, 10)

DefaultWidgets ==
    [outage_days |-> 7,
     production_per_day |-> ToFloat(800),
     price_per_unit |-> ToFloat(65),
     non_power_variable_cost_per_unit |-> ToFloat(20),
     fixed_costs_per_day |-> ToFloat(6000),
     stop_penalty_per_day |-> ToFloat(0),
     fuel_method_ui |-> "Liters per day",
     diesel_price_per_liter |-> Decimal(372, 100),
     liters |-> DefaultLiters("Liters per day"),
     rental_cost_per_day |-> ToFloat(8000),
     mobilization_cost |-> ToFloat(0),
     minimum_rental_days |-> 0]

\* The values the user enters, each within its widget's range.
WidgetEdits ==
    {<<"outage_days", 0>>, <<"outage_days", 2>>,
     <<"minimum_rental_days", 4>>,
     <<"production_per_day", ToFloat(0)>>,
     <<"stop_penalty_per_day", ToFloat(500)>>,
     <<"liters", ToFloat(100)>>,
     <<"rental_cost_per_day", ToFloat(100)>>,
     <<"mobilization_cost", ToFloat(1000)>>}

ScenarioNames == {"Corte programado", "   "}
Strip(name) == IF name = "   " THEN "" ELSE name

\* inputs = ScenarioInputs(outage_days=int(outage_days), ...)
InputsFromWidgets(w) ==
    ScenarioInputs(PyInt(w.outage_days), w.production_per_day, w.price_per_unit,
                   w.non_power_variable_cost_per_unit, w.fixed_costs_per_day,
                   w.stop_penalty_per_day,
                   IF w.fuel_method_ui = "Liters per day" THEN "per_day"
                   ELSE "per_unit",
                   w.diesel_price_per_liter,
                   IF w.fuel_method_ui = "Liters per day" THEN w.liters
                   ELSE ToFloat(0),
                   IF w.fuel_method_ui = "Liters per day" THEN ToFloat(0)
                   ELSE w.liters,
                   w.rental_cost_per_day, w.mobilization_cost,
                   PyInt(w.minimum_rental_days))

\* One execution of the page's script with no button pressed: the loaded
\* scenario, if any, is announced and dropped; the inputs are built from the
\* widgets; the simulation and its sensitivity chart are computed.
ScriptRun(w) ==
    LET inputs == InputsFromWidgets(w)
        res == compute_stop_vs_rent(inputs)
    IN  /\ notice' = IF loaded_scenario # None THEN "loaded" ELSE "none"
        /\ loaded_scenario' = None
        /\ scenario' = inputs
        /\ results' = Some(res)
        /\ figure' = Some(_plot_sensitivity_rental_cost(inputs, res))

PageInit ==
    /\ widgets = DefaultWidgets
    /\ loaded_scenario = None
    /\ db_rows = <<>>
    /\ next_id = 1
    /\ notice = "none"
    /\ events = 0
    /\ scenario = InputsFromWidgets(DefaultWidgets)
    /\ results = Some(compute_stop_vs_rent(InputsFromWidgets(DefaultWidgets)))
    /\ figure = Some(_plot_sensitivity_rental_cost(
                        InputsFromWidgets(DefaultWidgets),
                        compute_stop_vs_rent(InputsFromWidgets(DefaultWidgets))))
    /\ rerun = None
    /\ pc = "idle"

\* The user changes one sidebar widget; the script runs with the new value.
EditWidget ==
    /\ pc = "idle"
    /\ events < MaxEvents
    /\ \E e \in WidgetEdits :
          /\ widgets[e[1]] # e[2]
          /\ widgets' = [widgets EXCEPT ![e[1]] = e[2]]
    /\ ScriptRun(widgets')
    /\ events' = events + 1
    /\ UNCHANGED <<rerun, pc, db_rows, next_id>>

\* The user picks the other fuel method; the consumption widget shown for it
\* is a new widget, at its default.
SwitchFuelMethod ==
    /\ pc = "idle"
    /\ events < MaxEvents
    /\ LET ui == IF widgets.fuel_method_ui = "Liters per day"
                 THEN "Liters per unit" ELSE "Liters per day"
       IN  widgets' = [widgets EXCEPT !.fuel_method_ui = ui,
                                      !.liters = DefaultLiters(ui)]
    /\ ScriptRun(widgets')
    /\ events' = events + 1
    /\ UNCHANGED <<rerun, pc, db_rows, next_id>>

\* The "Guardar Escenario" button with a name: the row is inserted and
\* st.rerun() is called.
SaveScenario ==
    /\ pc = "idle"
    /\ events < MaxEvents
    /\ \E scenario_name \in ScenarioNames :
          /\ Strip(scenario_name) # ""
          /\ db_rows' = save_generator_scenario(
                            db_rows, next_id, Strip(scenario_name), scenario,
                            WithoutDailyTable(results[1]))
    /\ next_id' = next_id + 1
    /\ pc' = "rerun"
    /\ events' = events + 1
    /\ UNCHANGED <<scenario, results, figure, rerun, widgets, loaded_scenario,
                   notice>>

\* The same button with a blank name: an error is shown, nothing is stored.
SaveScenarioNoName ==
    /\ pc = "idle"
    /\ events < MaxEvents
    /\ \E scenario_name \in ScenarioNames : Strip(scenario_name) = ""
    /\ notice' = "name_missing"
    /\ events' = events + 1
    /\ UNCHANGED <<scenario, results, figure, rerun, pc, widgets,
                   loaded_scenario, db_rows, next_id>>

\* The "Cargar Escenario" button on a saved scenario: its stored inputs go to
\* st.session_state.loaded_scenario and st.rerun() is called.
LoadScenario ==
    /\ pc = "idle"
    /\ events < MaxEvents
    /\ \E i \in 1..Len(db_rows) :
          LET loaded == get_generator_scenario(db_rows, db_rows[i].id)
          IN  /\ loaded # None
              /\ DOMAIN loaded[1].inputs # {}
              /\ loaded_scenario' = Some(loaded[1].inputs)
    /\ pc' = "rerun"
    /\ events' = events + 1
    /\ UNCHANGED <<scenario, results, figure, rerun, widgets, db_rows, next_id,
                   notice>>

\* The delete button of a saved scenario, then st.rerun().
DeleteScenario ==
    /\ pc = "idle"
    /\ events < MaxEvents
    /\ \E i \in 1..Len(db_rows) :
          db_rows' = delete_generator_scenario(db_rows, db_rows[i].id)
    /\ pc' = "rerun"
    /\ events' = events + 1
    /\ UNCHANGED <<scenario, results, figure, rerun, widgets, loaded_scenario,
                   next_id, notice>>

\* The script run st.rerun() starts.
Rerun ==
    /\ pc = "rerun"
    /\ ScriptRun(widgets)
    /\ pc' = "idle"
    /\ UNCHANGED <<rerun, widgets, db_rows, next_id, events>>

PageNext ==
    \/ EditWidget
    \/ SwitchFuelMethod
    \/ SaveScenario
    \/ SaveScenarioNoName
    \/ LoadScenario
    \/ DeleteScenario
    \/ Rerun

PageSpec == PageInit /\ [][PageNext]_vars

\* ----------------------------------------------------------- the run

\* The page as it is before any interaction, for the runs of the functions.
PageUntouched ==
    /\ widgets = DefaultWidgets
    /\ loaded_scenario = None
    /\ db_rows = <<>>
    /\ next_id = 1
    /\ notice = "none"
    /\ events = 0

Init ==
    /\ scenario \in InputSpace
    /\ PageUntouched
    /\ results = None
    /\ figure = None
    /\ rerun = None
    /\ pc = "start"

\* results = compute_stop_vs_rent(inputs)
Run ==
    /\ pc = "start"
    /\ results' = Some(compute_stop_vs_rent(scenario))
    /\ pc' = IF HasRaised(compute_stop_vs_rent(scenario)) THEN "raised" ELSE "computed"
    /\ UNCHANGED <<scenario, figure, rerun, pagevars>>

\* compute_stop_vs_rent on the same configuration with rental_cost_per_day
\* replaced by a price at or below the returned max_rental_cost_per_day.
Reprice ==
    /\ pc = "computed"
    /\ results[1].max_rental_cost_per_day # None
    /\ \E off \in PriceOffsets :
          LET price == results[1].max_rental_cost_per_day[1] - off
          IN  rerun' = Some([price |-> price,
                             results |-> compute_stop_vs_rent(
                                             WithRentalCost(scenario, price))])
    /\ pc' = "repriced"
    /\ UNCHANGED <<scenario, results, figure, pagevars>>

\* _plot_sensitivity_rental_cost(inputs, results)
PlotSensitivity ==
    /\ pc = "computed"
    /\ figure' = Some(_plot_sensitivity_rental_cost(scenario, results[1]))
    /\ scenario' = BaselineAfterSweep(scenario, results[1])
    /\ pc' = "plotted"
    /\ UNCHANGED <<results, rerun, pagevars>>

\* compute_stop_vs_rent once more on the configuration the caller holds,
\* straight after the first run or after the sweep's own runs.
RunAgain ==
    /\ pc \in {"computed", "plotted"}
    /\ rerun' = Some([price |-> scenario.rental_cost_per_day,
                       results |-> compute_stop_vs_rent(scenario)])
    /\ pc' = "reran"
    /\ UNCHANGED <<scenario, results, figure, pagevars>>

Next == Run \/ Reprice

Spec == Init /\ [][Next]_vars

\* The run and its repetition on amounts that make the sums round.
FloatInit ==
    /\ scenario \in FloatInputs \cup WorkedScenarios
    /\ PageUntouched
    /\ results = None
    /\ figure = None
    /\ rerun = None
    /\ pc = "start"

FloatNext == Run \/ Reprice

FloatSpec == FloatInit /\ [][FloatNext]_vars

\* The run followed by its sensitivity chart.
SweepInit ==
    /\ scenario \in SweepInputs
    /\ PageUntouched
    /\ results = None
    /\ figure = None
    /\ rerun = None
    /\ pc = "start"

SweepNext == Run \/ PlotSensitivity \/ RunAgain

SweepSpec == SweepInit /\ [][SweepNext]_vars

\* ------------------------------------------------------------ the claims

IsInt(value) == value.t = "int"
Returned == pc \in {"computed", "repriced", "plotted"}
Abs(x) == IF x >= 0 THEN x ELSE -x

\* C1: zero-outage degeneracy.  A run whose outage_days is 0 returns 0 billed
\* days, a 0-day horizon, empty per-day and cumulative series, totals of 0,
\* no break-even day, no stable break-even day and no indifference price,
\* whatever the other fields are.
C1_ZeroOutageDegenerate ==
    (Returned /\ scenario.outage_days = PyInt(0)) =>
        LET r == results[1]
        IN  /\ r.billed_days = 0
            /\ r.horizon_days = 0
            /\ r.daily_table.Day = <<>>
            /\ r.daily_table.Profit_Stop = <<>>
            /\ r.daily_table.Profit_Rent = <<>>
            /\ r.daily_table.Cumulative_Stop = <<>>
            /\ r.daily_table.Cumulative_Rent = <<>>
            /\ r.daily_table.Cumulative_Diff = <<>>
            /\ r.total_stop = 0
            /\ r.total_rent = 0
            /\ r.incremental_total = 0
            /\ r.break_even_day = None
            /\ r.stable_break_even_day = None
            /\ r.max_rental_cost_per_day = None

C1_Witness ==
    /\ Returned
    /\ scenario.outage_days = PyInt(0)
    /\ IsInt(scenario.minimum_rental_days)
    /\ scenario.minimum_rental_days.v > 0
    /\ scenario.rental_cost_per_day > 0
    /\ scenario.mobilization_cost > 0
    /\ scenario.fixed_costs_per_day > 0

NumericMoneyFields ==
    {"production_per_day", "price_per_unit", "non_power_variable_cost_per_unit",
     "fixed_costs_per_day", "stop_penalty_per_day", "diesel_price_per_liter",
     "liters_per_day", "liters_per_unit", "rental_cost_per_day",
     "mobilization_cost"}
NumericDayFields == {"outage_days", "minimum_rental_days"}

IsNegative(inputs, f) ==
    IF f \in NumericDayFields
    THEN inputs[f].t \in {"int", "float"} /\ inputs[f].v < 0
    ELSE inputs[f] < 0

Zeroed(inputs, f) ==
    IF f \in NumericDayFields
    THEN [inputs EXCEPT ![f] = PyInt(0)]
    ELSE [inputs EXCEPT ![f] = ToFloat(0)]

\* C2: clamping.  Whatever numeric field of the configuration is negative,
\* the run returns what it returns with that field set to 0, and no derived
\* per-day cost or revenue is negative.
C2_NegativeIsZero ==
    Returned =>
        /\ \A f \in NumericMoneyFields \cup NumericDayFields :
              IsNegative(scenario, f) =>
                  results[1] = compute_stop_vs_rent(Zeroed(scenario, f))
        /\ results[1].revenue_per_day >= 0
        /\ results[1].non_power_variable_per_day >= 0
        /\ results[1].fuel_cost_per_day >= 0
        /\ results[1].mobilization_per_billed_day >= 0

C2_Witness ==
    /\ Returned
    /\ results[1].horizon_days > 0
    /\ scenario.price_per_unit < 0
    /\ scenario.rental_cost_per_day < 0
    /\ scenario.minimum_rental_days.v < 0
    /\ scenario.production_per_day > 0

\* The run repeated at exactly the indifference price.
AtIndifference ==
    /\ pc = "repriced"
    /\ rerun[1].price = results[1].max_rental_cost_per_day[1]

\* Half a unit in the last place of the price, on each billed day.
WithinRoundingOfZero(x, billed_days) == 2 * Abs(x) <= billed_days

\* C3 as stated: the run repeated at the returned indifference price has an
\* incremental total of 0 (within rounding tolerance), whenever there are
\* billed days.
C3_IndifferenceAsStated ==
    AtIndifference =>
        WithinRoundingOfZero(rerun[1].results.incremental_total,
                             results[1].billed_days)

\* C3 amended: the same, when the returned indifference price is not negative
\* (a negative price is clamped to 0 by the repeated run).
C3_IndifferenceNonNegativePrice ==
    (AtIndifference /\ results[1].max_rental_cost_per_day[1] >= 0) =>
        WithinRoundingOfZero(rerun[1].results.incremental_total,
                             results[1].billed_days)

C3_Witness ==
    /\ AtIndifference
    /\ results[1].max_rental_cost_per_day[1] > 0
    /\ results[1].incremental_total # 0
    /\ results[1].billed_days > results[1].outage_days
    /\ rerun[1].results.incremental_total # 0

\* C5: break-even consistency.  A stable break-even day is never before the
\* first-crossing break-even day, and there is no stable break-even day
\* without a first-crossing one.
C5_StableNotBeforeFirst ==
    Returned =>
        LET r == results[1]
        IN  r.stable_break_even_day # None =>
                /\ r.break_even_day # None
                /\ r.stable_break_even_day[1] >= r.break_even_day[1]

C5_Witness ==
    /\ Returned
    /\ results[1].horizon_days > 1
    /\ results[1].stable_break_even_day # None
    /\ results[1].break_even_day # None

\* C6: compute_stop_vs_rent returns a result for every ScenarioInputs value:
\* negative numbers, day fields that are not integers or not numbers, an
\* unknown fuel method.
C6_NeverRaises == pc # "raised"

\* C8 as stated: at any price at or below the indifference price the
\* repeated run has a non-negative incremental total.
C8_AtOrBelowAsStated ==
    pc = "repriced" => rerun[1].results.incremental_total >= 0

\* C8 amended: when the indifference price is not negative, at any price at
\* or below it the incremental total is non-negative up to the rounding of
\* the indifference price (half a unit in its last place per billed day).
C8_AtOrBelowNonNegativePrice ==
    (pc = "repriced" /\ results[1].max_rental_cost_per_day[1] >= 0) =>
        2 * rerun[1].results.incremental_total >= -results[1].billed_days

C8_Witness ==
    /\ pc = "repriced"
    /\ results[1].max_rental_cost_per_day[1] > 0
    /\ rerun[1].price < results[1].max_rental_cost_per_day[1]
    /\ rerun[1].price > 0
    /\ rerun[1].results.incremental_total > 0

\* C9: for non-negative integer day fields, billed_days is 0 when outage_days
\* is 0 and the larger of outage_days and minimum_rental_days otherwise.
C9_BilledDays ==
    (/\ Returned
     /\ IsInt(scenario.outage_days) /\ scenario.outage_days.v >= 0
     /\ IsInt(scenario.minimum_rental_days) /\ scenario.minimum_rental_days.v >= 0) =>
        LET od == scenario.outage_days.v
            mr == scenario.minimum_rental_days.v
        IN  results[1].billed_days =
                (IF od = 0 THEN 0 ELSE IF od >= mr THEN od ELSE mr)

C9_Witness ==
    /\ Returned
    /\ IsInt(scenario.outage_days) /\ IsInt(scenario.minimum_rental_days)
    /\ scenario.outage_days.v > 0
    /\ scenario.minimum_rental_days.v > scenario.outage_days.v
    /\ results[1].billed_days = scenario.minimum_rental_days.v

\* C10: horizon_days is the larger of outage_days and billed_days, so never
\* less than outage_days, and every series of the daily table covers exactly
\* the days 1..horizon_days.
C10_Horizon ==
    Returned =>
        LET r == results[1]
            t == r.daily_table
        IN  /\ IsInt(scenario.outage_days) =>
                  r.outage_days = Max(0, scenario.outage_days.v)
            /\ r.horizon_days =
                  (IF r.outage_days >= r.billed_days THEN r.outage_days
                   ELSE r.billed_days)
            /\ r.horizon_days >= r.outage_days
            /\ t.Day = [d \in 1..r.horizon_days |-> d]
            /\ \A col \in {t.Profit_Stop, t.Profit_Rent, t.Cumulative_Stop,
                           t.Cumulative_Rent, t.Cumulative_Diff} :
                  DOMAIN col = 1..r.horizon_days

C10_Witness ==
    /\ Returned
    /\ results[1].outage_days > 0
    /\ results[1].billed_days > results[1].outage_days
    /\ results[1].horizon_days = results[1].billed_days
    /\ Len(results[1].daily_table.Profit_Rent) = results[1].horizon_days

Curve == figure[1].traces[1]

\* C4: monotonic sweep.  When there are billed days, the sampled rental
\* prices are in increasing order and the incremental totals recorded along
\* them never increase.
C4_SweepNonIncreasing ==
    (pc = "plotted" /\ results[1].billed_days > 0) =>
        /\ Len(figure[1].traces) = 1
        /\ Len(Curve.x) = steps
        /\ Len(Curve.y) = steps
        /\ \A i \in 1..(steps - 1) :
              /\ Curve.x[i] <= Curve.x[i + 1]
              /\ Curve.y[i] >= Curve.y[i + 1]

C4_Witness ==
    /\ pc = "plotted"
    /\ results[1].billed_days > results[1].outage_days
    /\ results[1].incremental_total > 0
    /\ Curve.x[steps] > ToFloat(MinSpan)
    /\ Curve.y[1] > 0
    /\ Curve.y[steps] < 0

\* C7: a loaded scenario is the configuration of the next run.  The script
\* run that follows the load button builds its inputs equal to the stored
\* inputs put in st.session_state.loaded_scenario, and its result is the
\* stored result of every saved scenario with those inputs.
C7_LoadedScenarioIsRun ==
    [][(pc = "rerun" /\ loaded_scenario # None) =>
          /\ scenario' = loaded_scenario[1]
          /\ \A i \in 1..Len(db_rows) :
                json_loads(db_rows[i].inputs_json) = loaded_scenario[1] =>
                    WithoutDailyTable(results'[1]) =
                        json_loads(db_rows[i].results_json)]_vars
\* C11: minimum-commitment tail.  When minimum_rental_days > outage_days > 0,
\* billed_days and horizon_days are both minimum_rental_days, and on every day
\* after the outage up to the last billed day the rent strategy loses the
\* daily rental plus the mobilization per billed day while the stop strategy
\* is at 0; so for outage_days = 3 and minimum_rental_days = 10 on days 4..10.
C11_MinimumCommitmentTail ==
    (/\ Returned
     /\ IsInt(scenario.outage_days) /\ IsInt(scenario.minimum_rental_days)
     /\ scenario.outage_days.v > 0
     /\ scenario.minimum_rental_days.v > scenario.outage_days.v) =>
        LET r == results[1]
            od == scenario.outage_days.v
            mr == scenario.minimum_rental_days.v
            rental == Max(0, scenario.rental_cost_per_day)
        IN  /\ r.billed_days = mr
            /\ r.horizon_days = mr
            /\ \A d \in (od + 1)..mr :
                  /\ r.daily_table.Profit_Rent[d] =
                        -FAdd(rental, r.mobilization_per_billed_day)
                  /\ r.daily_table.Profit_Stop[d] = 0
            /\ (od = 3 /\ mr = 10) =>
                  /\ r.billed_days = 10
                  /\ r.horizon_days = 10
                  /\ DOMAIN r.daily_table.Profit_Rent = 1..10

C11_Witness ==
    /\ Returned
    /\ scenario.outage_days = PyInt(3)
    /\ scenario.minimum_rental_days = PyInt(10)
    /\ scenario.rental_cost_per_day > 0
    /\ scenario.mobilization_cost > 0
    /\ scenario.fixed_costs_per_day > 0
    /\ results[1].daily_table.Profit_Rent[4] < 0
    /\ results[1].daily_table.Profit_Rent[10] < 0
\* A numeric field that is 0 once clamped.
IsZero(inputs, f) == Max(0, inputs[f]) = 0

\* Nothing is sold, the rental has a price, and no cost other than the fixed
\* costs is entered.
StopFavoured(inputs) ==
    /\ IsInt(inputs.outage_days) /\ inputs.outage_days.v > 0
    /\ IsZero(inputs, "production_per_day") \/ IsZero(inputs, "price_per_unit")
    /\ inputs.rental_cost_per_day > 0
    /\ \A f \in {"non_power_variable_cost_per_unit", "stop_penalty_per_day",
                  "diesel_price_per_liter", "liters_per_day", "liters_per_unit",
                  "mobilization_cost"} : IsZero(inputs, f)

\* No sum of the run was rounded: the amounts of all the days of the horizon
\* together stay below the first value a float cannot hold to the step.
SumsAreExact ==
    LET r == results[1]
    IN  r.horizon_days
          * (r.revenue_per_day + r.non_power_variable_per_day
             + r.fuel_cost_per_day + r.mobilization_per_billed_day
             + Max(0, scenario.fixed_costs_per_day)
             + Max(0, scenario.stop_penalty_per_day)
             + Max(0, scenario.rental_cost_per_day)) < MantissaLimit

\* C12 as stated: scenario A generalised.  With an outage, no revenue per
\* day, a positive rental and no other cost than the fixed costs, the
\* cumulative difference is negative on every day of the horizon, the
\* incremental total is negative and neither break-even day exists; so for
\* 5 days of outage, fixed costs of 1000 and a rental of 500.
C12_StopFavoured ==
    (Returned /\ StopFavoured(scenario)) =>
        LET r == results[1]
        IN  /\ r.horizon_days > 0
            /\ \A d \in 1..r.horizon_days : r.daily_table.Cumulative_Diff[d] < 0
            /\ r.incremental_total < 0
            /\ r.break_even_day = None
            /\ r.stable_break_even_day = None

\* C12 amended: the same, for the runs none of whose sums is rounded (a
\* rental far smaller than the fixed costs is lost in the rounding of the
\* running sums, which then meet).
C12_StopFavouredExactSums ==
    (Returned /\ StopFavoured(scenario) /\ SumsAreExact) =>
        LET r == results[1]
        IN  /\ r.horizon_days > 0
            /\ \A d \in 1..r.horizon_days : r.daily_table.Cumulative_Diff[d] < 0
            /\ r.incremental_total < 0
            /\ r.break_even_day = None
            /\ r.stable_break_even_day = None

C12_Witness ==
    /\ Returned
    /\ StopFavoured(scenario)
    /\ scenario.outage_days = PyInt(5)
    /\ scenario.fixed_costs_per_day = ToFloat(1000)
    /\ scenario.rental_cost_per_day = ToFloat(500)
    /\ scenario.production_per_day = ToFloat(0)
    /\ results[1].incremental_total = ToFloat(-2500)
\* C13: scenario B.  With 10 days of outage, 100 units a day at 50 a unit, a
\* rental of 10 a day and every other cost, the fuel figures, the minimum
\* rental and the mobilization at 0, the run returns total_rent = 49900,
\* total_stop = 0, incremental_total = 49900 and break_even_day = 1.
C13_RentFavoured ==
    (/\ Returned
     /\ scenario.outage_days = PyInt(10)
     /\ scenario.production_per_day = ToFloat(100)
     /\ scenario.price_per_unit = ToFloat(50)
     /\ scenario.rental_cost_per_day = ToFloat(10)
     /\ scenario.minimum_rental_days = PyInt(0)
     /\ \A f \in {"non_power_variable_cost_per_unit", "fixed_costs_per_day",
                   "stop_penalty_per_day", "diesel_price_per_liter",
                   "liters_per_day", "liters_per_unit", "mobilization_cost"} :
            scenario[f] = ToFloat(0)) =>
        LET r == results[1]
        IN  /\ r.total_rent = ToFloat(49900)
            /\ r.total_stop = ToFloat(0)
            /\ r.incremental_total = ToFloat(49900)
            /\ r.break_even_day = Some(1)

C13_Witness ==
    /\ Returned
    /\ scenario \in ScenarioB
    /\ results[1].horizon_days = 10
    /\ results[1].daily_table.Cumulative_Rent[10] = ToFloat(49900)
C15_SweepNotApplicable ==
    (pc = "plotted" /\ results[1].billed_days = 0) =>
        /\ figure # None
        /\ figure[1].title = "Sensitivity (rental cost): not applicable"
        /\ figure[1].traces = <<>>
        /\ figure[1].runs = 0

C15_Witness ==
    /\ pc = "plotted"
    /\ results[1].billed_days = 0
    /\ scenario.minimum_rental_days.v > 0
    /\ scenario.rental_cost_per_day > ToFloat(MinSpan \div 2)
    /\ figure[1].traces = <<>>
ScalarFields ==
    {"outage_days", "billed_days", "horizon_days", "revenue_per_day",
     "non_power_variable_per_day", "fuel_cost_per_day",
     "mobilization_per_billed_day", "total_stop", "total_rent",
     "incremental_total", "break_even_day", "stable_break_even_day",
     "max_rental_cost_per_day"}

\* C16: the saved payload.  The row the page's save action adds holds, read
\* back from its JSON, the configuration that was simulated and the scalar
\* fields of its result, and never the per-day table.
C16_SavedPayload ==
    [][Len(db_rows') > Len(db_rows) =>
          LET saved == RowDict(db_rows'[Len(db_rows')])
          IN  /\ "daily_table" \notin DOMAIN saved.results
              /\ DOMAIN saved.results = ScalarFields
              /\ \A k \in ScalarFields : saved.results[k] = results[1][k]
              /\ saved.inputs = scenario
              /\ saved.inputs = InputsFromWidgets(widgets)]_vars

C16_Witness ==
    /\ pc = "rerun"
    /\ Len(db_rows) = 1
    /\ widgets # DefaultWidgets
    /\ results[1].horizon_days > 0
    /\ RowDict(db_rows[1]).inputs = scenario
    /\ RowDict(db_rows[1]).inputs # InputsFromWidgets(DefaultWidgets)
\* C17: stop strategy per day.  On every day of the horizon Profit_Stop is
\* -(fixed_costs_per_day + stop_penalty_per_day) up to the last day of the
\* outage and 0 after it.
C17_StopPerDay ==
    Returned =>
        LET r == results[1]
            fixed == Max(0, scenario.fixed_costs_per_day)
            penalty == Max(0, scenario.stop_penalty_per_day)
        IN  \A d \in 1..r.horizon_days :
                /\ d <= r.outage_days =>
                      r.daily_table.Profit_Stop[d] = -FAdd(fixed, penalty)
                /\ d > r.outage_days => r.daily_table.Profit_Stop[d] = 0

C17_Witness ==
    /\ Returned
    /\ results[1].outage_days > 1
    /\ results[1].horizon_days > results[1].outage_days
    /\ scenario.fixed_costs_per_day > 0
    /\ scenario.stop_penalty_per_day > 0
    /\ results[1].daily_table.Profit_Stop[1] < 0
    /\ results[1].daily_table.Profit_Stop[results[1].horizon_days] = 0
\* C18: rent strategy during the outage.  On every day of the outage
\* Profit_Rent is revenue_per_day - non_power_variable_per_day -
\* fuel_cost_per_day - fixed_costs_per_day - rental_cost_per_day -
\* mobilization_per_billed_day, the last two only on billed days, where
\* revenue_per_day is production_per_day x price_per_unit and
\* non_power_variable_per_day is production_per_day x
\* non_power_variable_cost_per_unit.
C18_RentPerOutageDay ==
    Returned =>
        LET r == results[1]
            production == Max(0, scenario.production_per_day)
            fixed == Max(0, scenario.fixed_costs_per_day)
            rental == Max(0, scenario.rental_cost_per_day)
        IN  /\ r.revenue_per_day =
                  FMul(production, Max(0, scenario.price_per_unit))
            /\ r.non_power_variable_per_day =
                  FMul(production,
                       Max(0, scenario.non_power_variable_cost_per_unit))
            /\ \A d \in 1..r.outage_days :
                  r.daily_table.Profit_Rent[d] =
                      FSub(FSub(FSub(FSub(FSub(r.revenue_per_day,
                                               r.non_power_variable_per_day),
                                          r.fuel_cost_per_day),
                                     fixed),
                                IF d <= r.billed_days THEN rental ELSE 0),
                           IF d <= r.billed_days
                           THEN r.mobilization_per_billed_day ELSE 0)

C18_Witness ==
    /\ Returned
    /\ results[1].outage_days > 1
    /\ results[1].revenue_per_day > 0
    /\ results[1].non_power_variable_per_day > 0
    /\ results[1].fuel_cost_per_day > 0
    /\ results[1].mobilization_per_billed_day > 0
    /\ scenario.fixed_costs_per_day > 0
    /\ scenario.rental_cost_per_day > 0
    /\ results[1].daily_table.Profit_Rent[1] < 0
\* C19: first-crossing break-even.  break_even_day is the smallest day of
\* the horizon whose cumulative difference is >= 0, a difference of exactly 0
\* included, and it is None exactly when the cumulative difference is
\* negative on every day of the horizon.
C19_FirstCrossing ==
    Returned =>
        LET r == results[1]
            diff == r.daily_table.Cumulative_Diff
            crossings == {d \in 1..r.horizon_days : diff[d] >= 0}
        IN  /\ r.break_even_day # None =>
                  /\ r.break_even_day[1] \in crossings
                  /\ \A d \in crossings : r.break_even_day[1] <= d
            /\ r.break_even_day = None <=>
                  \A d \in 1..r.horizon_days : diff[d] < 0

C19_Witness ==
    /\ Returned
    /\ results[1].horizon_days > results[1].outage_days
    /\ results[1].break_even_day # None
    /\ results[1].daily_table.Cumulative_Diff[results[1].break_even_day[1]] = 0
    /\ results[1].daily_table.Cumulative_Diff[results[1].horizon_days] < 0
    /\ scenario.rental_cost_per_day > 0
\* C20: stable break-even.  stable_break_even_day is the smallest day d such
\* that the cumulative difference is >= 0 on every day from d to the end of
\* the horizon, which is the smallest d whose minimum of the differences of
\* days d..horizon_days is >= 0; it is None exactly when there is no such
\* day: the horizon is empty or the difference of its last day is negative.
C20_StableBreakEven ==
    Returned =>
        LET r == results[1]
            diff == r.daily_table.Cumulative_Diff
            Days == 1..r.horizon_days
            suffixMin(d) ==
                CHOOSE m \in {diff[k] : k \in d..r.horizon_days} :
                    \A k \in d..r.horizon_days : m <= diff[k]
            stable == {d \in Days : \A k \in d..r.horizon_days : diff[k] >= 0}
        IN  /\ stable = {d \in Days : suffixMin(d) >= 0}
            /\ r.stable_break_even_day # None =>
                  /\ r.stable_break_even_day[1] \in stable
                  /\ \A d \in stable : r.stable_break_even_day[1] <= d
            /\ r.stable_break_even_day = None <=> stable = {}
            /\ r.stable_break_even_day = None <=>
                  (r.horizon_days = 0 \/ diff[r.horizon_days] < 0)

C20_Witness ==
    /\ Returned
    /\ results[1].horizon_days > results[1].outage_days
    /\ results[1].stable_break_even_day # None
    /\ scenario.rental_cost_per_day > 0
    /\ results[1].daily_table.Cumulative_Diff[results[1].horizon_days]
          < results[1].daily_table.Cumulative_Diff[results[1].outage_days]
\* C21: indifference price formula.  With billed days,
\* max_rental_cost_per_day is ((total_rent + rental_cost_per_day x
\* billed_days) - total_stop) / billed_days, the rental being the clamped
\* one; without billed days it is None (nothing is divided).  The value is
\* returned as computed, negative or not.
C21_IndifferencePrice ==
    Returned =>
        LET r == results[1]
            rental == Max(0, scenario.rental_cost_per_day)
        IN  /\ r.billed_days > 0 =>
                  r.max_rental_cost_per_day =
                      Some(FDiv(FSub(FAdd(r.total_rent,
                                          FTimes(rental, r.billed_days)),
                                     r.total_stop),
                                r.billed_days))
            /\ r.billed_days = 0 => r.max_rental_cost_per_day = None

C21_Witness ==
    /\ Returned
    /\ results[1].billed_days > results[1].outage_days
    /\ scenario.rental_cost_per_day > 0
    /\ results[1].max_rental_cost_per_day # None
    /\ results[1].max_rental_cost_per_day[1] < 0
\* The sum of values[1..d], added one day after the other from day 1.
RECURSIVE PrefixSum(_, _)
PrefixSum(values, d) ==
    IF d = 0 THEN 0 ELSE FAdd(PrefixSum(values, d - 1), values[d])

\* C22: horizon aggregation.  On every day d of the horizon Cumulative_Stop
\* and Cumulative_Rent are the sums of Profit_Stop and of Profit_Rent over
\* the days 1..d, added from left to right, and Cumulative_Diff is their
\* difference; total_stop and total_rent are the cumulative values of the
\* last day, incremental_total is total_rent - total_stop, which is the
\* difference of the last day; every series has horizon_days elements.
C22_Aggregation ==
    Returned =>
        LET r == results[1]
            t == r.daily_table
            h == r.horizon_days
        IN  /\ \A col \in DOMAIN t : Len(t[col]) = h
            /\ \A d \in 1..h :
                  /\ t.Cumulative_Stop[d] = PrefixSum(t.Profit_Stop, d)
                  /\ t.Cumulative_Rent[d] = PrefixSum(t.Profit_Rent, d)
                  /\ t.Cumulative_Diff[d] =
                        FSub(t.Cumulative_Rent[d], t.Cumulative_Stop[d])
            /\ r.total_stop = PrefixSum(t.Profit_Stop, h)
            /\ r.total_rent = PrefixSum(t.Profit_Rent, h)
            /\ r.incremental_total = FSub(r.total_rent, r.total_stop)
            /\ h > 0 =>
                  /\ r.total_stop = t.Cumulative_Stop[h]
                  /\ r.total_rent = t.Cumulative_Rent[h]
                  /\ r.incremental_total = t.Cumulative_Diff[h]

C22_Witness ==
    /\ Returned
    /\ results[1].horizon_days > 2
    /\ results[1].horizon_days > results[1].outage_days
    /\ ~SumsAreExact
    /\ results[1].total_stop # results[1].daily_table.Profit_Stop[1]
    /\ results[1].total_rent # results[1].horizon_days
                                  * results[1].daily_table.Profit_Rent[1]
    /\ results[1].incremental_total # 0
\* The stop side and the day counts of the run and of its repetition at
\* another rental price are the same, and the configuration of the run is
\* still the one that gave its result.
SameStopSide ==
    LET a == results[1]
        b == rerun[1].results
    IN  /\ b.daily_table.Profit_Stop = a.daily_table.Profit_Stop
        /\ b.daily_table.Cumulative_Stop = a.daily_table.Cumulative_Stop
        /\ b.total_stop = a.total_stop
        /\ b.billed_days = a.billed_days
        /\ b.horizon_days = a.horizon_days
        /\ a = compute_stop_vs_rent(scenario)
        /\ WithRentalCost(scenario, rerun[1].price)
              = [scenario EXCEPT !.rental_cost_per_day = rerun[1].price]

\* No sum of the repeated run was rounded.
RerunSumsAreExact ==
    LET r == rerun[1].results
    IN  r.horizon_days
          * (r.revenue_per_day + r.non_power_variable_per_day
             + r.fuel_cost_per_day + r.mobilization_per_billed_day
             + Max(0, scenario.fixed_costs_per_day)
             + Max(0, scenario.stop_penalty_per_day)
             + Max(0, rerun[1].price)) < MantissaLimit

\* C23 as stated: of two configurations that differ only in the rental
\* price, with billed days, the stop side and the day counts are the same and
\* the one with the strictly higher price, that price not negative, has the
\* strictly lower total_rent; the copy leaves the baseline as it was.
C23_OnlyRentSideAsStated ==
    pc = "repriced" =>
        LET a == results[1]
            b == rerun[1].results
            pa == scenario.rental_cost_per_day
            pb == rerun[1].price
        IN  /\ SameStopSide
            /\ (pb > pa /\ pb >= 0) => b.total_rent < a.total_rent
            /\ (pa > pb /\ pa >= 0) => a.total_rent < b.total_rent

\* C23 amended: the same with the prices compared once clamped at 0; the
\* total_rent of the higher price is never the higher one, and is strictly
\* lower when no sum of the two runs is rounded.
C23_OnlyRentSide ==
    pc = "repriced" =>
        LET a == results[1]
            b == rerun[1].results
            pa == Max(0, scenario.rental_cost_per_day)
            pb == Max(0, rerun[1].price)
            exact == SumsAreExact /\ RerunSumsAreExact
        IN  /\ SameStopSide
            /\ pb > pa => /\ b.total_rent <= a.total_rent
                           /\ exact => b.total_rent < a.total_rent
            /\ pa > pb => /\ a.total_rent <= b.total_rent
                           /\ exact => a.total_rent < b.total_rent
            /\ pa = pb => a.total_rent = b.total_rent

C23_Witness ==
    /\ pc = "repriced"
    /\ SumsAreExact /\ RerunSumsAreExact
    /\ results[1].billed_days > results[1].outage_days
    /\ scenario.rental_cost_per_day > 0
    /\ rerun[1].price > scenario.rental_cost_per_day
    /\ rerun[1].results.total_rent < results[1].total_rent
    /\ results[1].total_stop < 0

\* C24: sweep upper bound.  With billed days the swept prices start at 0 and
\* their upper bound is at least twice the clamped rental_cost_per_day, at
\* least 1.5 times max_rental_cost_per_day when that is present and
\* positive, and at least 100; it is the largest of these, a negative or
\* absent max_rental_cost_per_day adding nothing.
C24_SweepUpperBound ==
    (pc = "plotted" /\ results[1].billed_days > 0) =>
        LET upper == sweep_upper(scenario, results[1])
            twice == FTimes(Max(0, scenario.rental_cost_per_day), 2)
            max_rental == results[1].max_rental_cost_per_day
            indifference ==
                IF max_rental # None /\ max_rental[1] > 0
                THEN OneAndAHalf(max_rental[1]) ELSE 0
        IN  /\ Curve.x[1] = 0
            /\ upper >= twice
            /\ upper >= indifference
            /\ upper >= ToFloat(MinSpan)
            /\ upper \in {twice, indifference, ToFloat(MinSpan)}

C24_Witness ==
    /\ pc = "plotted"
    /\ results[1].billed_days > 0
    /\ results[1].max_rental_cost_per_day[1] > 0
    /\ sweep_upper(scenario, results[1])
          = OneAndAHalf(results[1].max_rental_cost_per_day[1])
    /\ sweep_upper(scenario, results[1]) > ToFloat(MinSpan)
    /\ sweep_upper(scenario, results[1])
          > FTimes(Max(0, scenario.rental_cost_per_day), 2)
    /\ scenario.rental_cost_per_day > 0
\* The mobilization charged to the rent strategy on day d.
MobilizationCharged(d) ==
    IF d <= results[1].billed_days
    THEN results[1].mobilization_per_billed_day ELSE 0

\* mobilization_per_billed_day is mobilization_cost / billed_days, or 0
\* without billed days, and Profit_Rent carries it on the billed days and on
\* no other day.
AmortizedOverBilledDays ==
    LET r == results[1]
        rental == Max(0, scenario.rental_cost_per_day)
        before_rental ==
            FSub(FSub(FSub(r.revenue_per_day, r.non_power_variable_per_day),
                      r.fuel_cost_per_day),
                 Max(0, scenario.fixed_costs_per_day))
    IN  /\ r.mobilization_per_billed_day =
              (IF r.billed_days > 0
               THEN FDiv(Max(0, scenario.mobilization_cost), r.billed_days)
               ELSE 0)
        /\ \A d \in 1..r.horizon_days :
              r.daily_table.Profit_Rent[d] =
                  (IF d <= r.outage_days
                   THEN FSub(FSub(before_rental,
                                  IF d <= r.billed_days THEN rental ELSE 0),
                             MobilizationCharged(d))
                   ELSE -FAdd(IF d <= r.billed_days THEN rental ELSE 0,
                              MobilizationCharged(d)))

\* The exact sum of the mobilization charged over the horizon.
RECURSIVE TotalCharged(_)
TotalCharged(d) ==
    IF d = 0 THEN 0 ELSE TotalCharged(d - 1) + MobilizationCharged(d)

\* C25 as stated: the mobilization is amortized over the billed days, and
\* what is charged over the horizon sums to exactly mobilization_cost with
\* billed days and to 0 without.
C25_MobilizationSumsExactly ==
    Returned =>
        /\ AmortizedOverBilledDays
        /\ TotalCharged(results[1].horizon_days) =
              (IF results[1].billed_days > 0
               THEN Max(0, scenario.mobilization_cost) ELSE 0)

\* C25 amended: the same, the sum being mobilization_cost up to the rounding
\* of the division: half a step of the quotient for each billed day.
C25_MobilizationSumsRounded ==
    Returned =>
        /\ AmortizedOverBilledDays
        /\ results[1].billed_days = 0 =>
              TotalCharged(results[1].horizon_days) = 0
        /\ results[1].billed_days > 0 =>
              2 * Abs(TotalCharged(results[1].horizon_days)
                      - Max(0, scenario.mobilization_cost))
                  <= results[1].billed_days

C25_Witness ==
    /\ Returned
    /\ results[1].outage_days > 0
    /\ results[1].billed_days > results[1].outage_days
    /\ scenario.mobilization_cost > 0
    /\ scenario.rental_cost_per_day > 0
    /\ TotalCharged(results[1].horizon_days) # scenario.mobilization_cost
\* Other values of a consumption figure.
OtherFigures == {ToFloat(0), ToFloat(5)}

\* C26: fuel cost per day.  For an integer outage_days, fuel_cost_per_day is
\* liters_per_unit x production_per_day x diesel_price_per_liter with the
\* method per_unit and liters_per_day x diesel_price_per_liter with the
\* method per_day, it is 0 when outage_days is 0 whatever the method, and the
\* figure of the method not selected changes nothing in the result.
C26_FuelCostPerDay ==
    (Returned /\ IsInt(scenario.outage_days)) =>
        LET r == results[1]
            diesel == Max(0, scenario.diesel_price_per_liter)
            per_unit ==
                FMul(FMul(Max(0, scenario.liters_per_unit),
                          Max(0, scenario.production_per_day)),
                     diesel)
            per_day == FMul(Max(0, scenario.liters_per_day), diesel)
        IN  /\ scenario.outage_days.v <= 0 => r.fuel_cost_per_day = 0
            /\ (scenario.outage_days.v > 0 /\ scenario.fuel_method = "per_unit")
                  => /\ r.fuel_cost_per_day = per_unit
                     /\ \A v \in OtherFigures :
                           compute_stop_vs_rent(
                               [scenario EXCEPT !.liters_per_day = v]) = r
            /\ (scenario.outage_days.v > 0 /\ scenario.fuel_method = "per_day")
                  => /\ r.fuel_cost_per_day = per_day
                     /\ \A v \in OtherFigures :
                           compute_stop_vs_rent(
                               [scenario EXCEPT !.liters_per_unit = v]) = r

C26_Witness ==
    /\ Returned
    /\ IsInt(scenario.outage_days) /\ scenario.outage_days.v > 0
    /\ scenario.fuel_method = "per_unit"
    /\ scenario.liters_per_day = 0
    /\ scenario.liters_per_unit > 0
    /\ results[1].fuel_cost_per_day > 0
\* C27 as stated: break_even_day is None or 1, and stable_break_even_day is
\* None or 1.
C27_FirstDayOrNever ==
    Returned =>
        /\ results[1].break_even_day \in {None, Some(1)}
        /\ results[1].stable_break_even_day \in {None, Some(1)}

\* C27 amended: the same, for the runs none of whose sums is rounded (the
\* rounding of the running sums can bring a negative difference back to 0 on
\* a later day).
C27_FirstDayOrNeverExactSums ==
    (Returned /\ SumsAreExact) =>
        /\ results[1].break_even_day \in {None, Some(1)}
        /\ results[1].stable_break_even_day \in {None, Some(1)}

C27_Witness ==
    /\ Returned /\ SumsAreExact
    /\ results[1].horizon_days >= 2
    /\ results[1].break_even_day = Some(1)
    /\ results[1].stable_break_even_day = None
    /\ results[1].daily_table.Cumulative_Diff[1] > 0
\* stable_break_even_day is present exactly when there are days and the
\* incremental total is not negative.
StablePresentIffTotalNonNegative ==
    LET r == results[1]
    IN  (r.stable_break_even_day # None)
            <=> (r.horizon_days > 0 /\ r.incremental_total >= 0)

\* break_even_day present without a stable_break_even_day.
CrossesButNotStable ==
    /\ results[1].break_even_day # None
    /\ results[1].stable_break_even_day = None

\* C28 as stated: stable_break_even_day is present if and only if
\* horizon_days > 0 and incremental_total >= 0, and break_even_day is present
\* without a stable_break_even_day exactly when the difference of day 1 is
\* >= 0 and incremental_total < 0.
C28_StableIffTotal ==
    Returned =>
        LET r == results[1]
        IN  /\ StablePresentIffTotalNonNegative
            /\ CrossesButNotStable
                  <=> /\ r.horizon_days > 0
                      /\ r.daily_table.Cumulative_Diff[1] >= 0
                      /\ r.incremental_total < 0

\* C28 amended: stable_break_even_day is present if and only if
\* horizon_days > 0 and incremental_total >= 0; break_even_day is present
\* without it exactly when the difference of some day is >= 0 and
\* incremental_total < 0, and that day is day 1 when no sum is rounded.
C28_StableIffTotalAnyDay ==
    Returned =>
        LET r == results[1]
            diff == r.daily_table.Cumulative_Diff
        IN  /\ StablePresentIffTotalNonNegative
            /\ CrossesButNotStable
                  <=> /\ \E d \in 1..r.horizon_days : diff[d] >= 0
                      /\ r.incremental_total < 0
            /\ (SumsAreExact /\ CrossesButNotStable) => diff[1] >= 0

C28_Witness ==
    /\ Returned
    /\ CrossesButNotStable
    /\ results[1].incremental_total < 0
    /\ results[1].daily_table.Cumulative_Diff[1] < 0
\* The part of a day's rent profit that comes from operating.
OperatingMargin(r, inputs) ==
    r.revenue_per_day - r.non_power_variable_per_day - r.fuel_cost_per_day
        - Max(0, inputs.fixed_costs_per_day)

\* total_stop in closed form.
ClosedTotalStop(r, inputs) ==
    -(r.outage_days * (Max(0, inputs.fixed_costs_per_day)
                        + Max(0, inputs.stop_penalty_per_day)))

\* incremental_total in closed form, the mobilization charged being paid:
\* the fixed costs are not in it.
ClosedIncremental(r, rental, paid) ==
    r.outage_days * (r.revenue_per_day - r.non_power_variable_per_day
                       - r.fuel_cost_per_day
                       + Max(0, scenario.stop_penalty_per_day))
        - r.billed_days * Max(0, rental) - paid

\* C29 as stated: total_stop = -outage_days x (fixed costs + penalty),
\* total_rent = outage_days x (revenue - other variable cost - fuel - fixed
\* costs) - billed_days x rental - mobilization_cost, all fields clamped, and
\* incremental_total is linear in the rental with slope -billed_days and
\* without the fixed costs.
C29_ClosedForms ==
    Returned =>
        LET r == results[1]
            mobilization == Max(0, scenario.mobilization_cost)
        IN  /\ r.total_stop = ClosedTotalStop(r, scenario)
            /\ r.total_rent
                  = r.outage_days * OperatingMargin(r, scenario)
                      - r.billed_days * Max(0, scenario.rental_cost_per_day)
                      - (IF r.billed_days > 0 THEN mobilization ELSE 0)
            /\ r.incremental_total
                  = ClosedIncremental(r, scenario.rental_cost_per_day,
                        IF r.billed_days > 0 THEN mobilization ELSE 0)
            /\ pc = "repriced" =>
                  rerun[1].results.incremental_total - r.incremental_total
                    = -(r.billed_days
                          * (Max(0, rerun[1].price)
                               - Max(0, scenario.rental_cost_per_day)))

\* C29 amended: the same for the runs none of whose sums is rounded, with
\* the mobilization paid being billed_days x mobilization_per_billed_day,
\* which is mobilization_cost up to the rounding of the division.
C29_ClosedFormsExactSums ==
    (Returned /\ SumsAreExact) =>
        LET r == results[1]
            mobilization == Max(0, scenario.mobilization_cost)
            paid == r.billed_days * r.mobilization_per_billed_day
        IN  /\ r.total_stop = ClosedTotalStop(r, scenario)
            /\ r.total_rent
                  = r.outage_days * OperatingMargin(r, scenario)
                      - r.billed_days * Max(0, scenario.rental_cost_per_day)
                      - paid
            /\ r.incremental_total
                  = ClosedIncremental(r, scenario.rental_cost_per_day, paid)
            /\ r.billed_days > 0 => 2 * Abs(paid - mobilization) <= r.billed_days
            /\ r.billed_days = 0 => paid = 0
            /\ (pc = "repriced" /\ RerunSumsAreExact) =>
                  rerun[1].results.incremental_total - r.incremental_total
                    = -(r.billed_days
                          * (Max(0, rerun[1].price)
                               - Max(0, scenario.rental_cost_per_day)))

C29_Witness ==
    /\ pc = "repriced"
    /\ SumsAreExact /\ RerunSumsAreExact
    /\ results[1].outage_days > 0
    /\ results[1].billed_days > results[1].outage_days
    /\ scenario.fixed_costs_per_day > 0
    /\ results[1].billed_days * results[1].mobilization_per_billed_day
          # Max(0, scenario.mobilization_cost)
    /\ Max(0, rerun[1].price) # Max(0, scenario.rental_cost_per_day)
    /\ rerun[1].results.incremental_total # results[1].incremental_total
\* C30: horizon_days equals billed_days in every run: both are 0 when the
\* outage is 0 days and both are max(outage_days, minimum_rental_days)
\* otherwise, so every day of the loop is a billed day and the rental and the
\* amortized mobilization are charged on each of the horizon_days days.
C30_HorizonIsBilledDays ==
    Returned =>
        LET r == results[1]
            min_rental_days == Max(0, _safe_int(scenario.minimum_rental_days))
            rental == Max(0, scenario.rental_cost_per_day)
            operating ==
                FSub(FSub(FSub(r.revenue_per_day, r.non_power_variable_per_day),
                          r.fuel_cost_per_day),
                     Max(0, scenario.fixed_costs_per_day))
        IN  /\ r.horizon_days = r.billed_days
            /\ r.outage_days = 0 => r.billed_days = 0
            /\ r.outage_days > 0
                  => r.billed_days = Max(r.outage_days, min_rental_days)
            /\ Len(r.daily_table.Profit_Rent) = r.billed_days
            /\ \A d \in 1..r.horizon_days :
                  /\ d <= r.billed_days
                  /\ r.daily_table.Profit_Rent[d]
                        = IF d <= r.outage_days
                          THEN FSub(FSub(operating, rental),
                                    r.mobilization_per_billed_day)
                          ELSE -FAdd(rental, r.mobilization_per_billed_day)

C30_Witness ==
    /\ Returned
    /\ results[1].outage_days >= 2
    /\ results[1].horizon_days = results[1].outage_days
    /\ Max(0, _safe_int(scenario.minimum_rental_days)) \in 1..(results[1].outage_days - 1)
    /\ scenario.rental_cost_per_day > 0
    /\ results[1].mobilization_per_billed_day > 0
    /\ results[1].revenue_per_day > 0
====
